---- MODULE Spec2Model ----
(***************************************************************************)
(* Model of pdinklag/random-permutation: the prime oracle (isqrt_floor,    *)
(* isqrt_ceil, is_prime, prime_predecessor, prev_prime_3mod4), the         *)
(* RandomPermutation constructor and operator(), and the range-for over    *)
(* begin()/end().                                                          *)
(*                                                                         *)
(* uint64_t values are kept at their full width: a value is a sequence of  *)
(* eight little-endian base-256 limbs, and every operation wraps modulo    *)
(* 2^64 exactly as the C++ unsigned arithmetic does.                       *)
(***************************************************************************)
EXTENDS Integers, Naturals, Sequences, FiniteSets, TLC

\* ---------------------------------------------------------------------
\* uint64_t arithmetic on base-256 limbs
\* ---------------------------------------------------------------------
\* The recursive loops below test their accumulator against itself (acc = acc)
\* so that TLC evaluates it on entry instead of building a chain of deferred
\* arguments; the test is always TRUE.

LimbBase == 2^8

NL == 64 \div 8

RECURSIVE FromNatL(_, _)
FromNatL(n, k) == IF k = 0 THEN <<>>
                  ELSE <<n % LimbBase>> \o FromNatL(n \div LimbBase, k - 1)

U64(n) == FromNatL(n, NL)

RECURSIVE ValFrom(_, _)
ValFrom(a, i) == IF i > Len(a) THEN 0 ELSE a[i] + LimbBase * ValFrom(a, i + 1)

\* numeric value of a limb sequence that fits in a TLC integer
ToNat(a) == ValFrom(a, 1)

Limb(a, j) == IF j \in 1..Len(a) THEN a[j] ELSE 0

RECURSIVE AddFrom(_, _, _, _)
AddFrom(a, b, c, i) ==
    IF c = c /\ i > Len(a) THEN <<>>
    ELSE <<(a[i] + Limb(b, i) + c) % LimbBase>>
         \o AddFrom(a, b, (a[i] + Limb(b, i) + c) \div LimbBase, i + 1)

\* a + b, wrapping modulo 2^(8 * Len(a))
LAdd(a, b) == AddFrom(a, b, 0, 1)

RECURSIVE SubFrom(_, _, _, _)
SubFrom(a, b, br, i) ==
    IF br = br /\ i > Len(a) THEN <<>>
    ELSE LET d == a[i] - Limb(b, i) - br
         IN <<(d + LimbBase) % LimbBase>> \o SubFrom(a, b, IF d < 0 THEN 1 ELSE 0, i + 1)

\* a - b, wrapping modulo 2^(8 * Len(a))
LSub(a, b) == SubFrom(a, b, 0, 1)

RECURSIVE CmpFrom(_, _, _)
CmpFrom(a, b, i) ==
    IF i = 0 THEN 0
    ELSE IF Limb(a, i) < Limb(b, i) THEN -1
    ELSE IF Limb(a, i) > Limb(b, i) THEN 1
    ELSE CmpFrom(a, b, i - 1)

LCmp(a, b) == CmpFrom(a, b, IF Len(a) > Len(b) THEN Len(a) ELSE Len(b))
LLt(a, b) == LCmp(a, b) < 0
LLe(a, b) == LCmp(a, b) <= 0

RECURSIVE ColSum(_, _, _, _)
ColSum(a, b, k, i) ==
    IF i > Len(a) THEN 0
    ELSE (IF k + 1 - i \in 1..Len(b) THEN a[i] * b[k + 1 - i] ELSE 0) + ColSum(a, b, k, i + 1)

RECURSIVE Normalize(_, _, _)
Normalize(cols, c, k) ==
    IF c = c /\ k > Len(cols) THEN <<>>
    ELSE <<(cols[k] + c) % LimbBase>> \o Normalize(cols, (cols[k] + c) \div LimbBase, k + 1)

\* the exact product, Len(a) + Len(b) limbs wide
LMulFull(a, b) == Normalize([k \in 1..(Len(a) + Len(b)) |-> ColSum(a, b, k, 1)], 0, 1)

\* a * b truncated to the width of a (uint64_t multiplication)
LMul(a, b) == SubSeq(LMulFull(a, b), 1, Len(a))

\* the exact product a * b does not fit the width of a
LMulOverflows(a, b) == \E k \in (Len(a) + 1)..(Len(a) + Len(b)) : LMulFull(a, b)[k] # 0

\* a >> k
LShr(a, k) == [i \in 1..Len(a) |->
                 (Limb(a, i + k \div 8) \div 2^(k % 8))
                 + ((Limb(a, i + k \div 8 + 1) * 2^(8 - (k % 8))) % LimbBase)]

\* a << k, wrapping
LShl(a, k) == [i \in 1..Len(a) |->
                 ((Limb(a, i - k \div 8) * 2^(k % 8)) % LimbBase)
                 + (Limb(a, i - k \div 8 - 1) \div 2^(8 - (k % 8)))]

RECURSIVE ByteWidth(_)
ByteWidth(n) == IF n = 0 THEN 0 ELSE 1 + ByteWidth(n \div 2)

RECURSIVE TopFrom(_, _)
TopFrom(a, i) == IF i = 0 THEN 0 ELSE IF a[i] # 0 THEN 8 * (i - 1) + ByteWidth(a[i])
                 ELSE TopFrom(a, i - 1)

\* std::bit_width
LBitWidth(a) == TopFrom(a, Len(a))

RECURSIVE ModFrom(_, _, _, _)
ModFrom(a, m, i, acc) == IF acc = acc /\ i = 0 THEN acc ELSE ModFrom(a, m, i - 1, (acc * LimbBase + a[i]) % m)

\* a % m for a divisor m below 2^22, as a TLC integer
LModSmall(a, m) == ModFrom(a, m, Len(a), 0)

RECURSIVE DivFrom(_, _, _, _)
DivFrom(a, d, i, rem) ==
    IF rem = rem /\ i = 0 THEN <<>>
    ELSE DivFrom(a, d, i - 1, (rem * LimbBase + a[i]) % d) \o <<(rem * LimbBase + a[i]) \div d>>

\* a / d for a divisor d below 2^22
LDivSmall(a, d) == DivFrom(a, d, Len(a), 0)

Bit(a, k) == (Limb(a, k \div 8 + 1) \div 2^(k % 8)) % 2

RECURSIVE ModBits(_, _, _, _)
ModBits(a, b, k, rem) ==
    IF rem = rem /\ k < 0 THEN rem
    ELSE LET sh == LAdd(LShl(rem, 1), FromNatL(Bit(a, k), Len(rem)))
         IN ModBits(a, b, k - 1, IF LLe(b, sh) THEN LSub(sh, b) ELSE sh)

\* a % b for any non-zero uint64_t b (binary long division)
LMod(a, b) ==
    IF LBitWidth(b) <= 22 THEN U64(LModSmall(a, ToNat(b)))
    ELSE SubSeq(ModBits(a, b, 8 * Len(a) - 1, FromNatL(0, NL + 1)), 1, NL)

RECURSIVE XorByte(_, _)
XorByte(x, y) == IF x = 0 /\ y = 0 THEN 0
                 ELSE (((x % 2) + (y % 2)) % 2) + 2 * XorByte(x \div 2, y \div 2)

LXor(a, b) == [i \in 1..Len(a) |-> XorByte(a[i], b[i])]

UINT64_MAX == LSub(U64(0), U64(1))

\* ---------------------------------------------------------------------
\* math_utils.hpp
\* ---------------------------------------------------------------------

\* constexpr uint64_t pow2(int x) { return uint64_t(1) << x; }
pow2(x) == LShl(U64(1), x)

RECURSIVE SqrtLoop(_, _, _)
SqrtLoop(x, e, r) ==
    IF r = r /\ e = 0 THEN r
    ELSE LET cur == LShr(x, 2 * (e - 1))
             sm == LShl(r, 1)
             lg == LAdd(sm, U64(1))
         IN SqrtLoop(x, e - 1, LAdd(sm, U64(IF LLe(LMul(lg, lg), cur) THEN 1 ELSE 0)))

isqrt_floor(x) ==
    IF LLt(x, U64(4)) THEN U64(IF x # U64(0) THEN 1 ELSE 0)
    ELSE SqrtLoop(x, LBitWidth(x) \div 2, U64(1))

isqrt_ceil(x) ==
    LET r == isqrt_floor(x)
    IN LAdd(r, U64(IF LLt(LMul(r, r), x) THEN 1 ELSE 0))

\* whether some product lg * lg of isqrt_floor's digit loop exceeds 2^64 - 1
RECURSIVE SqrtLoopOverflows(_, _, _)
SqrtLoopOverflows(x, e, r) ==
    IF r = r /\ e = 0 THEN FALSE
    ELSE LET cur == LShr(x, 2 * (e - 1))
             sm == LShl(r, 1)
             lg == LAdd(sm, U64(1))
         IN LMulOverflows(lg, lg)
            \/ SqrtLoopOverflows(x, e - 1, LAdd(sm, U64(IF LLe(LMul(lg, lg), cur) THEN 1 ELSE 0)))

\* whether a product computed by isqrt_floor(x) or isqrt_ceil(x) exceeds 2^64 - 1
isqrt_overflows(x) ==
    \/ /\ ~LLt(x, U64(4))
       /\ SqrtLoopOverflows(x, LBitWidth(x) \div 2, U64(1))
    \/ LMulOverflows(isqrt_floor(x), isqrt_floor(x))

SMALL_PRIMES == <<1,2,3,5,7,11,13,17,19,23,29,31,37,41,43,47,53,59,61,67,71,73,79,83,89,97,101,
    103,107,109,113,127,131,137,139,149,151,157,163,167,173,179,181,191,193,197,199,
    211,223,227,229,233,239,241,251>>

NUM_SMALL_PRIMES == 55

\* SMALL_PRIMES[j] with the C++ 0-based index j
SmallPrimeAt(j) == SMALL_PRIMES[j + 1]

\* the small-prime loop of is_prime: the divisor i it stops at, or 0 when it found a factor
RECURSIVE SmallPrimeLoop(_, _, _)
SmallPrimeLoop(p, m, j) ==
    LET i == SmallPrimeAt(j)
    IN IF LLe(U64(i), m) /\ j < NUM_SMALL_PRIMES - 1
       THEN IF LModSmall(p, i) = 0 THEN 0 ELSE SmallPrimeLoop(p, m, j + 1)
       ELSE i

\* the 6k +- 1 loop of is_prime
RECURSIVE FolkloreLoop(_, _, _)
FolkloreLoop(p, m, i) ==
    IF i = i /\ LLe(i, m)
    THEN IF LMod(p, i) = U64(0) \/ LMod(p, LAdd(i, U64(2))) = U64(0) THEN FALSE
         ELSE FolkloreLoop(p, m, LAdd(i, U64(6)))
    ELSE TRUE

is_prime(p) ==
    IF LModSmall(p, 2) = 0 THEN FALSE
    ELSE LET m == isqrt_ceil(p)
             i == SmallPrimeLoop(p, m, 2)
         IN IF i = 0 THEN FALSE
            ELSE FolkloreLoop(p, m, LAdd(U64(5), LMul(LDivSmall(LSub(U64(i), U64(5)), 6), U64(6))))

\* constexpr uint64_t prime_predecessor(uint64_t p): the entry checks before the scan.
\* Its scan loop `while(!is_prime(p)) p -= 2;` is the action PpredScan below.
PpredEntryReturns(p) == p = U64(0) \/ p = U64(2)

PpredScanStart(p) == IF LModSmall(p, 2) = 0 THEN LSub(p, U64(1)) ELSE p

\* ---------------------------------------------------------------------
\* random_permutation.cpp
\* ---------------------------------------------------------------------

CommonUniverse(u, p) == [universe |-> u, prime |-> p]

common_universes == <<
    CommonUniverse(LSub(pow2(16), U64(2)), LSub(pow2(16), U64(17))),
    CommonUniverse(LSub(pow2(16), U64(1)), LSub(pow2(16), U64(17))),
    CommonUniverse(LSub(pow2(24), U64(2)), LSub(pow2(24), U64(17))),
    CommonUniverse(LSub(pow2(24), U64(1)), LSub(pow2(24), U64(17))),
    CommonUniverse(LSub(pow2(32), U64(2)), LSub(pow2(32), U64(5))),
    CommonUniverse(LSub(pow2(32), U64(1)), LSub(pow2(32), U64(5))),
    CommonUniverse(LSub(pow2(40), U64(2)), LSub(pow2(40), U64(213))),
    CommonUniverse(LSub(pow2(40), U64(1)), LSub(pow2(40), U64(213))),
    CommonUniverse(LSub(pow2(48), U64(2)), LSub(pow2(48), U64(65))),
    CommonUniverse(LSub(pow2(48), U64(1)), LSub(pow2(48), U64(65))),
    CommonUniverse(LSub(pow2(56), U64(2)), LSub(pow2(56), U64(5))),
    CommonUniverse(LSub(pow2(56), U64(1)), LSub(pow2(56), U64(5))),
    CommonUniverse(LSub(pow2(63), U64(2)), LSub(pow2(63), U64(25))),
    CommonUniverse(LSub(pow2(63), U64(1)), LSub(pow2(63), U64(25))),
    \* 0xFFFFFFFFFFFFFF43ULL
    CommonUniverse(LSub(UINT64_MAX, U64(1)), LSub(UINT64_MAX, U64(188))),
    CommonUniverse(UINT64_MAX, LSub(UINT64_MAX, U64(188))),
    CommonUniverse(U64(0), U64(0)) >>

\* the fast path of prev_prime_3mod4: the table prime for universe, or <<>> on a miss
RECURSIVE TableFrom(_, _)
TableFrom(universe, i) ==
    IF common_universes[i + 1].prime = U64(0) THEN <<>>
    ELSE IF universe = common_universes[i + 1].universe THEN common_universes[i + 1].prime
    ELSE TableFrom(universe, i + 1)

CommonPrime(universe) == TableFrom(universe, 0)

\* `while(!is_prime(p)) p -= 2; return p;`
RECURSIVE PpredScanFrom(_)
PpredScanFrom(p) == IF is_prime(p) THEN p ELSE PpredScanFrom(LSub(p, U64(2)))

\* prime_predecessor(p) as one call
prime_predecessor(p) ==
    IF PpredEntryReturns(p) THEN p ELSE PpredScanFrom(PpredScanStart(p))

\* `while((p & 3ULL) != 3ULL) p = prime_predecessor(p - 1); return p;`
RECURSIVE PrevPrime3Mod4Loop(_)
PrevPrime3Mod4Loop(p) ==
    IF LModSmall(p, 4) = 3 THEN p ELSE PrevPrime3Mod4Loop(prime_predecessor(LSub(p, U64(1))))

\* RandomPermutation::prev_prime_3mod4(universe) as one call
prev_prime_3mod4(universe) ==
    IF CommonPrime(universe) # <<>> THEN CommonPrime(universe)
    ELSE PrevPrime3Mod4Loop(prime_predecessor(universe))

\* 0x9696594B6A5936B2ULL and 0xD2165B4B66592AD6ULL
SHUFFLE1 == <<178, 54, 89, 106, 75, 89, 150, 150>>
SHUFFLE2 == <<214, 42, 89, 102, 75, 91, 22, 210>>

\* permute with the half test x < prime / 2 instead of x <= prime / 2
permuteHalfOpen(prime, x) ==
    IF LLe(prime, x) THEN x
    ELSE LET r == LMod(LMulFull(x, x), prime)
         IN IF LLt(x, LShr(prime, 1)) THEN r ELSE LSub(prime, r)

permute(prime, x) ==
    IF LLe(prime, x) THEN x
    ELSE LET r == LMod(LMulFull(x, x), prime)
         IN IF LLe(x, LShr(prime, 1)) THEN r ELSE LSub(prime, r)

\* RandomPermutation::operator()(i) of the permutation (universe, seed, prime)
Apply(universe, seed, prime, i) ==
    permute(prime, LMod(LAdd(seed, permute(prime, i)), universe))

\* ---------------------------------------------------------------------
\* bounds and inputs
\* ---------------------------------------------------------------------

MaxU == 10
MaxScanSteps == 16
MaxPrimeArg == 40
MaxSqrtArg == 70
MaxPermPrime == 43
MaxAssigns == 1
MaxLoopX == 20

\* universes the permutation scenario constructs
PermUniverses == {U64(n) : n \in 1..MaxU} \cup {U64(100)}
\* universes the prime-selection scenario constructs: small ones and table hits
PrimeUniverses == {U64(n) : n \in 1..MaxU} \cup {U64(65534), U64(65535)}
\* user seeds: 0, 42, and the seed for which seed_ = 2^64 - 1
Seeds == {U64(0), U64(42), LXor(LXor(UINT64_MAX, SHUFFLE1), SHUFFLE2)}
SqrtInputs == {U64(n) : n \in 0..MaxSqrtArg}
              \cup {pow2(62), LSub(pow2(63), U64(1)), pow2(63), UINT64_MAX}
PrimeInputs == {U64(n) : n \in 0..MaxPrimeArg}
\* universes the cursor scenario constructs: a small one and 2^64 - 1
CursorUniverses == {U64(MaxU), UINT64_MAX}
\* start indices i, 0 <= i <= U, handed to at(i)
CursorStarts(universe) ==
    IF LLe(universe, U64(MaxU)) THEN {U64(k) : k \in 0..ToNat(universe)}
    ELSE {LSub(universe, U64(2)), LSub(universe, U64(1)), universe}
\* universes of the temporaries RandomPermutation(u, 0) assigned to perm
AssignUniverses == {U64(7), U64(MaxU + 3)}
\* the members of RandomPermutation(u, s), computed by the constructor
Constructed(u, s) ==
    [universe |-> u, seed |-> LXor(LXor(s, SHUFFLE1), SHUFFLE2), prime |-> prev_prime_3mod4(u)]
\* primes p = 3 (mod 4) handed to permute
PermPrimes == {U64(q) : q \in {q \in 3..MaxPermPrime :
                   q % 4 = 3 /\ \A d \in 2..(q - 1) : q % d # 0}}

\* ---------------------------------------------------------------------
\* state
\* ---------------------------------------------------------------------

VARIABLES
    mode,        \* which entry point runs: "perm", "prime", "isqrt", "isprime", "default", "permute", "cursor", "assign"
    universe_, seed_, prime_,   \* RandomPermutation members
    spc,         \* constructor position: "idle", "enter", "scan", "outer", "built"
    ppIn,        \* argument of the running prime_predecessor call
    cand,        \* its local p during the scan
    ppOut,       \* the value it returned (p in prev_prime_3mod4)
    steps,       \* scan iterations taken so far
    it_x, it_ov, \* Iterator::x_ and Iterator::overflow_
    it_pc,       \* loop position: "none", "test", "body", "inc", "done"
    it_start,    \* index the cursor was created at (begin() or at(i))
    it_end,      \* x_ of the end() iterator the loop last compared against
    it_loop,     \* loop form: "none", "explicit" (calls end() per test), "range" (range-for)
    assigns,     \* assignments made inside the loop
    derefs,      \* indices the range-for dereferenced, in order
    yields,      \* values it yielded
    fin, fout, fpc  \* argument, result and position of a pure-function call

vars == <<mode, universe_, seed_, prime_, spc, ppIn, cand, ppOut, steps,
          it_x, it_ov, it_pc, it_start, it_end, it_loop, assigns, derefs, yields,
          fin, fout, fpc>>

\* a default constructor that leaves prime_ at 1 instead of 0
DefaultConstructedPrimeOne == [universe |-> U64(1), seed |-> U64(0), prime |-> U64(1)]

\* RandomPermutation() : universe_(1), seed_(0), prime_(0)
DefaultConstructed == [universe |-> U64(1), seed |-> U64(0), prime |-> U64(0)]

Init ==
    /\ mode \in {"perm", "prime", "isqrt", "isprime", "default", "permute", "cursor", "assign"}
    /\ universe_ = DefaultConstructed.universe
    /\ seed_ = DefaultConstructed.seed
    /\ prime_ = DefaultConstructed.prime
    /\ spc = "idle"
    /\ ppIn = U64(0) /\ cand = U64(0) /\ ppOut = U64(0) /\ steps = 0
    /\ it_x = U64(0) /\ it_ov = FALSE /\ it_pc = "none" /\ it_start = U64(0)
    /\ it_end = U64(0) /\ it_loop = "none" /\ assigns = 0
    /\ derefs = <<>> /\ yields = <<>>
    /\ fin \in (CASE mode = "isqrt" -> SqrtInputs
                  [] mode = "isprime" -> PrimeInputs
                  [] mode = "permute" -> PermPrimes
                  [] OTHER -> {U64(0)})
    /\ fout = FALSE
    /\ fpc = IF mode \in {"isqrt", "isprime", "default", "permute"} THEN "start" ELSE "none"

IterVars == <<it_x, it_ov, it_pc, it_start, it_end, it_loop, assigns, derefs, yields>>
FunVars == <<fin, fout, fpc>>

\* RandomPermutation(universe, seed): members, then prev_prime_3mod4's table lookup
Construct ==
    /\ mode \in {"perm", "prime", "cursor", "assign"}
    /\ spc = "idle"
    /\ \E u \in (CASE mode = "perm" -> PermUniverses
                    [] mode = "prime" -> PrimeUniverses
                    [] mode = "cursor" -> CursorUniverses
                    [] OTHER -> {U64(MaxU)}),
          s \in (IF mode = "perm" THEN Seeds ELSE {U64(0)}) :
          /\ universe_' = u
          /\ seed_' = LXor(LXor(s, SHUFFLE1), SHUFFLE2)
          /\ IF CommonPrime(u) # <<>>
             THEN /\ prime_' = CommonPrime(u) /\ spc' = "built"
                  /\ ppIn' = ppIn
             ELSE /\ ppIn' = u /\ spc' = "enter"
                  /\ prime_' = prime_
    /\ UNCHANGED <<mode, cand, ppOut, steps, IterVars, FunVars>>

\* prime_predecessor(ppIn): the p == 0 and p == 2 returns and the step to odd
PpredEnter ==
    /\ spc = "enter"
    /\ IF PpredEntryReturns(ppIn)
       THEN /\ ppOut' = ppIn /\ spc' = "outer" /\ cand' = cand
       ELSE /\ cand' = PpredScanStart(ppIn) /\ spc' = "scan" /\ ppOut' = ppOut
    /\ UNCHANGED <<mode, universe_, seed_, prime_, ppIn, steps, IterVars, FunVars>>

\* one iteration of `while(!is_prime(p)) p -= 2; return p;`
PpredScan ==
    /\ spc = "scan"
    /\ steps < MaxScanSteps
    /\ steps' = steps + 1
    /\ IF is_prime(cand)
       THEN /\ ppOut' = cand /\ spc' = "outer" /\ cand' = cand
       ELSE /\ cand' = LSub(cand, U64(2)) /\ spc' = "scan" /\ ppOut' = ppOut
    /\ UNCHANGED <<mode, universe_, seed_, prime_, ppIn, IterVars, FunVars>>

\* `while((p & 3ULL) != 3ULL) p = prime_predecessor(p - 1); return p;`
PrimeOuter ==
    /\ spc = "outer"
    /\ IF LModSmall(ppOut, 4) = 3
       THEN /\ prime_' = ppOut /\ spc' = "built" /\ ppIn' = ppIn
       ELSE /\ ppIn' = LSub(ppOut, U64(1)) /\ spc' = "enter" /\ prime_' = prime_
    /\ UNCHANGED <<mode, universe_, seed_, cand, ppOut, steps, IterVars, FunVars>>

\* ---------------------------------------------------------------------
\* Iterator: for(auto it = perm.begin(); it != perm.end(); ++it) use(*it);
\* ---------------------------------------------------------------------

\* Iterator(perm, x) : x_(x), overflow_(x_ > perm.universe_)
IterOverflowAt(universe, x) == LLt(universe, x)

\* end() { return Iterator(*this, universe_+1, true); }
EndX(universe) == LAdd(universe, U64(1))

\* defaulted operator== against an end() iterator (x_ = endx, overflow_ = true):
\* same permutation, same x_, same overflow_
IterAtEnd(endx, x, ov) == x = endx /\ ov = TRUE

\* the loop forms: `for(auto it = perm.begin(); it != perm.end(); ++it)`, which
\* calls end() at every test, and `for(auto v : perm)`, which calls it once
LoopForms == {"explicit", "range"}

PermUVars == <<mode, universe_, seed_, prime_, spc, ppIn, cand, ppOut, steps>>

\* auto it = perm.begin();
IterBegin ==
    /\ mode \in {"perm", "assign"} /\ spc = "built" /\ it_pc = "none"
    /\ it_x' = U64(0)
    /\ it_ov' = IterOverflowAt(universe_, U64(0))
    /\ it_pc' = "test"
    /\ it_start' = U64(0)
    /\ it_end' = EndX(universe_)
    /\ \E f \in LoopForms : it_loop' = f
    /\ UNCHANGED <<PermUVars, assigns, derefs, yields, FunVars>>

\* auto it = perm.at(i);
IterAt ==
    /\ mode = "cursor" /\ spc = "built" /\ it_pc = "none"
    /\ \E i \in CursorStarts(universe_) :
          /\ it_x' = i
          /\ it_ov' = IterOverflowAt(universe_, i)
          /\ it_start' = i
    /\ it_pc' = "test"
    /\ it_end' = EndX(universe_)
    /\ \E f \in LoopForms : it_loop' = f
    /\ UNCHANGED <<PermUVars, assigns, derefs, yields, FunVars>>

\* it != end: a fresh perm.end() in the explicit loop, the one captured at
\* loop entry in the range-for
IterTest ==
    /\ it_pc = "test"
    /\ it_end' = IF it_loop = "explicit" THEN EndX(universe_) ELSE it_end
    /\ it_pc' = IF IterAtEnd(it_end', it_x, it_ov) THEN "done" ELSE "body"
    /\ UNCHANGED <<PermUVars, it_x, it_ov, it_start, it_loop, assigns, derefs, yields, FunVars>>

\* *it, that is (*perm_)(x_)
IterDeref ==
    /\ it_pc = "body"
    /\ derefs' = Append(derefs, it_x)
    /\ yields' = Append(yields, Apply(universe_, seed_, prime_, it_x))
    /\ it_pc' = "inc"
    /\ UNCHANGED <<PermUVars, it_x, it_ov, it_start, it_end, it_loop, assigns, FunVars>>

\* ++it: overflow_ = (x_ == perm_->universe_); ++x_;
IterInc ==
    /\ it_pc = "inc"
    /\ mode = "assign" => LLt(it_x, U64(MaxLoopX))
    /\ it_ov' = (it_x = universe_)
    /\ it_x' = LAdd(it_x, U64(1))
    /\ it_pc' = "test"
    /\ UNCHANGED <<PermUVars, it_start, it_end, it_loop, assigns, derefs, yields, FunVars>>

\* perm = RandomPermutation(u, 0); or perm = RandomPermutation(); inside the loop
\* body: the defaulted operator= copies universe_, seed_ and prime_
PermAssign ==
    /\ mode = "assign" /\ it_pc \in {"body", "inc"}
    /\ assigns < MaxAssigns
    /\ \E src \in {DefaultConstructed} \cup {Constructed(u, U64(0)) : u \in AssignUniverses} :
          /\ universe_' = src.universe
          /\ seed_' = src.seed
          /\ prime_' = src.prime
    /\ assigns' = assigns + 1
    /\ UNCHANGED <<mode, spc, ppIn, cand, ppOut, steps, it_x, it_ov, it_pc,
                   it_start, it_end, it_loop, derefs, yields, FunVars>>

\* it = perm.at(j); or it = perm.end(); inside the body of the explicit loop:
\* the defaulted Iterator::operator= copies x_ and overflow_
IterAssign ==
    /\ mode = "assign" /\ it_loop = "explicit" /\ it_pc \in {"body", "inc"}
    /\ assigns < MaxAssigns
    /\ \E rhs \in {[x |-> U64(j), ov |-> IterOverflowAt(universe_, U64(j))] :
                        j \in 0..(ToNat(universe_) + 1)}
                   \cup {[x |-> EndX(universe_), ov |-> TRUE]} :
          /\ it_x' = rhs.x
          /\ it_ov' = rhs.ov
    /\ assigns' = assigns + 1
    /\ UNCHANGED <<PermUVars, it_pc, it_start, it_end, it_loop, derefs, yields, FunVars>>

\* ---------------------------------------------------------------------
\* pure-function entry points
\* ---------------------------------------------------------------------

CallIsqrt ==
    /\ mode = "isqrt" /\ fpc = "start"
    /\ fout' = [floor |-> isqrt_floor(fin), ceil |-> isqrt_ceil(fin),
                overflow |-> isqrt_overflows(fin)]
    /\ fpc' = "done"
    /\ UNCHANGED <<PermUVars, IterVars, fin>>

CallIsPrime ==
    /\ mode = "isprime" /\ fpc = "start"
    /\ fout' = is_prime(fin)
    /\ fpc' = "done"
    /\ UNCHANGED <<PermUVars, IterVars, fin>>

\* RandomPermutation perm; perm(0);
CallDefault ==
    /\ mode = "default" /\ fpc = "start"
    /\ fout' = Apply(universe_, seed_, prime_, U64(0))
    /\ fpc' = "done"
    /\ UNCHANGED <<PermUVars, IterVars, fin>>

\* permute(p, x) for every x in [0, p + 2]
CallPermute ==
    /\ mode = "permute" /\ fpc = "start"
    /\ fout' = [x \in 0..(ToNat(fin) + 2) |-> permute(fin, U64(x))]
    /\ fpc' = "done"
    /\ UNCHANGED <<PermUVars, IterVars, fin>>

Next ==
    \/ CallPermute
    \/ CallDefault
    \/ Construct
    \/ PpredEnter
    \/ PpredScan
    \/ PrimeOuter
    \/ IterBegin
    \/ IterAt
    \/ PermAssign
    \/ IterAssign
    \/ IterTest
    \/ IterDeref
    \/ IterInc
    \/ CallIsqrt
    \/ CallIsPrime

Spec == Init /\ [][Next]_vars

\* ---------------------------------------------------------------------
\* number theory used to state the properties
\* ---------------------------------------------------------------------

IsPrimeNum(n) == n > 1 /\ \A d \in 2..n : d > n \div d \/ n % d # 0

RECURSIVE LargestPrimeLE(_)
LargestPrimeLE(n) == IF n < 2 THEN 0 ELSE IF IsPrimeNum(n) THEN n ELSE LargestPrimeLE(n - 1)

RECURSIVE LargestPrime3Mod4LE(_)
LargestPrime3Mod4LE(n) ==
    IF n < 3 THEN 0
    ELSE IF IsPrimeNum(n) /\ n % 4 = 3 THEN n ELSE LargestPrime3Mod4LE(n - 1)

\* ---------------------------------------------------------------------
\* properties
\* ---------------------------------------------------------------------

\* C1: for every universe U >= 1 and seed, the constructed permutation maps
\* [0, U) one-to-one onto [0, U) through operator().
C1_Bijection ==
    (mode = "perm" /\ spc = "built" /\ it_pc = "none") =>
        LET U == ToNat(universe_)
        IN {Apply(universe_, seed_, prime_, U64(i)) : i \in 0..(U - 1)} = {U64(v) : v \in 0..(U - 1)}

\* C3: the prime the constructor selects never exceeds the universe: prime_ <= universe_,
\* and neither does the value p that prev_prime_3mod4's search holds and may return.
C3_PrimeBound ==
    /\ spc = "built" => LLe(prime_, universe_)
    /\ spc = "scan" => LLe(cand, universe_)
    /\ spc = "outer" => LLe(ppOut, universe_)

\* C4: for every universe U >= 3, prev_prime_3mod4(U) returns the largest prime
\* p <= U with p mod 4 = 3; its downward search never passes below that prime.
C4_PrimeSelection ==
    (mode = "prime" /\ ToNat(universe_) >= 3) =>
        LET P == U64(LargestPrime3Mod4LE(ToNat(universe_)))
        IN /\ spc = "built" => prime_ = P
           /\ spc = "scan" => LLe(P, cand)

\* C5: a range-for over begin()..end() dereferences exactly U times, at the
\* indices 0, 1, ..., U-1 in order, yielding every element of [0, U) once.
C5_FullIteration ==
    (mode = "perm" /\ it_pc = "done") =>
        LET U == ToNat(universe_)
        IN /\ derefs = [k \in 1..U |-> U64(k - 1)]
           /\ Len(yields) = U
           /\ {yields[k] : k \in 1..Len(yields)} = {U64(v) : v \in 0..(U - 1)}

\* C6: prime_predecessor(p) returns the largest prime <= p for p >= 2, and
\* prime_predecessor(0) = 0: its downward scan stays between that prime and p,
\* and it returns that prime.
C6_PrimePredecessor ==
    LET p == ToNat(ppIn)
        P == U64(LargestPrimeLE(p))
    IN /\ (spc = "scan" /\ p >= 2) => (LLe(P, cand) /\ LLe(cand, ppIn))
       /\ (spc = "outer" /\ (p >= 2 \/ p = 0)) => ppOut = P

\* C7: is_prime(p) is TRUE exactly when p is a prime number.
C7_IsPrime ==
    (mode = "isprime" /\ fpc = "done") => (fout = IsPrimeNum(ToNat(fin)))

\* C8: r = isqrt_floor(x) satisfies r*r <= x < (r+1)*(r+1) over the integers,
\* and isqrt_ceil(x) is the least c with c*c >= x.
C8_IsqrtExact ==
    (mode = "isqrt" /\ fpc = "done") =>
        LET r == fout.floor
            r1 == LAdd(r \o <<0>>, U64(1))
            c == fout.ceil
        IN /\ LLe(LMulFull(r, r), fin)
           /\ LLt(fin, LMulFull(r1, r1))
           /\ LLe(fin, LMulFull(c, c))
           /\ (c = U64(0) \/ LLt(LMulFull(LSub(c, U64(1)), LSub(c, U64(1))), fin))

\* C9: no product computed by isqrt_floor(x) (lg * lg) or isqrt_ceil(x) (r * r)
\* exceeds 2^64 - 1.
C9_IsqrtNoOverflow ==
    (mode = "isqrt" /\ fpc = "done") => ~fout.overflow

\* C11: RandomPermutation() has universe_ = 1, prime_ = 0, seed_ = 0, and
\* operator()(0) returns 0.
C11_DefaultIdentity ==
    (mode = "default" /\ spc = "idle") =>
        /\ universe_ = U64(1) /\ prime_ = U64(0) /\ seed_ = U64(0)
        /\ (fpc = "done" => fout = U64(0))

\* C11 witness: operator()(0) of a default-constructed permutation has returned.
C11_Witness == mode = "default" /\ fpc = "done"

\* C13: for every universe U and internal seed_, y |-> (seed_ + y) % U with the
\* 64-bit wrapping addition of operator() is a bijection on [0, U).
C13_SeedOffsetBijection ==
    (mode = "perm" /\ spc = "built" /\ it_pc = "none") =>
        LET U == ToNat(universe_)
        IN {LMod(LAdd(seed_, U64(y)), universe_) : y \in 0..(U - 1)} = {U64(v) : v \in 0..(U - 1)}

\* C14: for a prime p = 3 (mod 4), permute(p, .) restricted to [0, p) is a
\* bijection onto [0, p), and permute(p, x) = x for every x >= p.
C14_PermuteBijection ==
    (mode = "permute" /\ fpc = "done") =>
        LET p == ToNat(fin)
        IN /\ {fout[x] : x \in 0..(p - 1)} = {U64(v) : v \in 0..(p - 1)}
           /\ \A x \in p..(p + 2) : fout[x] = U64(x)
C14_Witness == mode = "permute" /\ fpc = "done" /\ ToNat(fin) > 3

\* C15: for every universe U >= 1 (2^64 - 1 included) and start 0 <= i <= U, the
\* cursor at(i) reaches end() after exactly U - i increments, and every index it
\* dereferences before that is < U.
C15_CursorReachesEnd ==
    (mode = "cursor" /\ it_pc = "done") =>
        /\ U64(Len(derefs)) = LSub(universe_, it_start)
        /\ \A k \in 1..Len(derefs) : LLt(derefs[k], universe_)

====
